---- MODULE Spec2Model ----
(***************************************************************************)
(* The simulated factory of src/simulated_factory/factory_components.py    *)
(* (and its older copy src/machine_parts.py): Machine, Part, PartGenerator *)
(* and OpcServer processes running on the salabim event list.              *)
(*                                                                         *)
(* One action is one event firing: the component at the head of the event  *)
(* list becomes current, the clock moves to its due time and its process   *)
(* runs up to its next yield (hold / passivate) or to its end.             *)
(*                                                                         *)
(* The clock is capped: main is scheduled at till = WorkBound(plan), a     *)
(* time by which all parts of the plan are done, so that the publisher's   *)
(* endless loop gives a finite state space.  trace is a history variable.  *)
(***************************************************************************)
EXTENDS Integers, Sequences, FiniteSets, TLC

\* ------------------------------------------------------------------ bounds
MaxQty == 2
MaxDur == 2
\* the queue demonstration: components, longest hold, time limit of the run
MaxX == 3
MaxHold == 1
MaxTill == 2
MaxOps == 5

\* ------------------------------------------------------- program constants
\* the turnaround hold left out
TurnaroundMut == 3 - 3
\* yield self.hold(3), the delay to remove a part and place the next
Turnaround == 3

\* yield self.hold(1) of OpcServer.process
PublishInterval == 1

None == -1

VARIABLES
    number_of_machines,  \* RealTimeEnvironment.number_of_machines
    production_plan,     \* RealTimeEnvironment.production_plan
    till,                \* the time main is scheduled at by run(till=...)
    now,                 \* Environment.now()
    running,             \* the run loop is still firing events
    fault,               \* exception that aborted the run, "none" if none
    event_list,          \* pending (due time, component) events, in firing order
    status,              \* salabim status of every component
    mpc,                 \* the yield each Machine.process is suspended at
    machine_queue,       \* Machine.machine_queue
    parts,               \* Machine.parts
    cycle_time_start,    \* Machine.cycle_time_start
    cycle_time,          \* Machine.cycle_time
    operating_time,      \* Machine.operating_time
    machine_status,      \* Machine.machine_status
    current_part,        \* Machine.current_part
    part_list,           \* the Part components, in creation order
    published,           \* values last written to the OPC server per machine
    trace,               \* history of the machines' and parts' steps, in order
    last_publish,        \* the instant OpcServer.process last ran its loop body
    writes,              \* per machine, the nodes written by that loop body, in order
    sink_stops,          \* calls of opc_server.stop() so far
    interrupted,         \* how the operator interrupted the run, "none" if not
    outcome,             \* how main() was left, "none" while run() is running
    stepping             \* the component in the middle of its steps, Idle between firings

vars == <<number_of_machines, production_plan, till, now, running, fault,
          event_list, status, mpc, machine_queue, parts, cycle_time_start,
          cycle_time, operating_time, machine_status, current_part,
          part_list, published, trace, last_publish, writes, sink_stops,
          interrupted, outcome, stepping>>

\* the telemetry sink's history and the way the run ended
sinkVars == <<last_publish, writes, stepping>>
endVars == <<sink_stops, interrupted, outcome>>

machineVars == <<mpc, machine_queue, parts, cycle_time_start, cycle_time,
                 operating_time, machine_status, current_part>>

\* ----------------------------------------------------------- components
MachineIds == 0 .. (number_of_machines - 1)
MachineC(m) == <<"M", m>>
PartC(p) == <<"P", p>>
GeneratorC == <<"G", 0>>
ServerC == <<"S", 0>>
\* no component: the run loop is between two firings
Idle == <<"-", 0>>

\* ------------------------------------------------------- production plans
\* a routing step is <<machine id, processing time>>, as [0, 2] in the source
MachineCounts == {1, 2}
Durations == {0, MaxDur}
RouteLengths == {1, 2}
FamilyCounts == {1, 2}

RoutingsFor(n, ds) == UNION {[1 .. l -> (0 .. (n - 1)) \X ds] : l \in RouteLengths}
FamilyNumber(i) == i * 100000
\* plans of f entries: entry i is (name, FamilyNumber(i), quantity, routing)
PlansOf(f, quantities, routings) ==
    {[i \in 1 .. f |-> [family |-> FamilyNumber(i), quantity |-> x[i][1], routing |-> x[i][2]]] :
        x \in [1 .. f -> quantities \X routings]}
Quantities == {1, MaxQty}
PlansFor(n) == UNION {PlansOf(f, Quantities, RoutingsFor(n, Durations)) : f \in FamilyCounts}

\* Scenario plans of the specification's section 8: one or two families of one
\* part each, every part routed to machine 0 only, for 2 or 3 time units.
ScenarioDurations == {2, 3}
ScenarioPlansFor(n) ==
    UNION {PlansOf(f, {1}, {<<(<<0, d>>)>> : d \in ScenarioDurations}) : f \in FamilyCounts}

RECURSIVE SumSeq(_)
SumSeq(s) == IF s = <<>> THEN 0 ELSE Head(s) + SumSeq(Tail(s))

RouteWork(r) == SumSeq([i \in 1 .. Len(r) |-> r[i][2] + Turnaround])
\* a time by which all work of the plan is certainly over: the clock's cap
WorkBound(pl) == SumSeq([i \in 1 .. Len(pl) |-> pl[i].quantity * RouteWork(pl[i].routing)])
TotalParts(pl) == SumSeq([i \in 1 .. Len(pl) |-> pl[i].quantity])

\* ------------------------------------------------------------ event list
\* run() without till has no end of time.  To keep its clock finite the
\* instants after Horizon, by which all work of the plan is over, are folded
\* onto Horizon and Horizon + 1 in turn (Horizon + 2 is Horizon again); a
\* run with a till is not touched.
Horizon == WorkBound(production_plan) + 1
Fold(t) == IF till = None /\ t > Horizon + 1 THEN Horizon ELSE t

\* inserted before the events due at the same time: last in, first out
ScheduleLifo(el, c, t) ==
    LET k == Cardinality({i \in 1 .. Len(el) : el[i].t < Fold(t)})
    IN SubSeq(el, 1, k) \o <<[t |-> Fold(t), c |-> c]>> \o SubSeq(el, k + 1, Len(el))
\* insert after every event that is due no later: equal times fire in
\* insertion order
Schedule(el, c, t) ==
    LET k == Cardinality({i \in 1 .. Len(el) : el[i].t <= Fold(t)})
    IN SubSeq(el, 1, k) \o <<[t |-> Fold(t), c |-> c]>> \o SubSeq(el, k + 1, Len(el))

Unschedule(el, c) == SelectSeq(el, LAMBDA e : e.c # c)

\* Component.hold(duration) by the current component c at time t
Hold(el, c, t, duration) == Schedule(el, c, t + duration)

\* Component.activate() of another component c at time t
Activate(el, c, t) == Schedule(Unschedule(el, c), c, t)

\* Queue.pop(): the head leaves the queue
Pop(q) == [item |-> Head(q), rest |-> Tail(q)]

\* Component.enter(queue): the tail
Enter(q, p) == Append(q, p)

\* Component.leave(): the component leaves, the others keep their order
Leave(q, p) == SelectSeq(q, LAMBDA x : x # p)

InQueue(q, p) == \E i \in 1 .. Len(q) : q[i] = p

\* history record
Log(ev, t, m, p, k, v) == [ev |-> ev, t |-> t, m |-> m, p |-> p, k |-> k, v |-> v]

\* --------------------------------------------------------------- Init
\* the state after RealTimeEnvironment(...) and run(till=t) up to the first event
InitRun(n, pl, t) ==
    /\ number_of_machines = n
    /\ production_plan = pl
    /\ till = t
    /\ now = 0
    /\ running = TRUE
    /\ fault = "none"
    \* setup(): the machines, then the part generator, then the OPC server
    /\ event_list = [i \in 1 .. (n + 2) |->
                        [t |-> 0, c |-> IF i <= n THEN MachineC(i - 1)
                                        ELSE IF i = n + 1 THEN GeneratorC ELSE ServerC]]
    /\ status = [c \in {MachineC(m) : m \in 0 .. (n - 1)} \cup {GeneratorC, ServerC}
                    |-> "scheduled"]
    /\ mpc = [m \in 0 .. (n - 1) |-> "start"]
    /\ machine_queue = [m \in 0 .. (n - 1) |-> <<>>]
    /\ parts = [m \in 0 .. (n - 1) |-> 0]
    /\ cycle_time_start = [m \in 0 .. (n - 1) |-> 0]
    /\ cycle_time = [m \in 0 .. (n - 1) |-> 0]
    /\ operating_time = [m \in 0 .. (n - 1) |-> 0]
    /\ machine_status = [m \in 0 .. (n - 1) |-> 0]
    /\ current_part = [m \in 0 .. (n - 1) |-> None]
    /\ part_list = <<>>
    /\ published = [m \in 0 .. (n - 1) |-> [part_count |-> 0, cycle_time |-> 0,
                                            operating_time |-> 0]]
    /\ trace = <<>>
    /\ last_publish = None
    /\ writes = [m \in 0 .. (n - 1) |-> <<>>]
    /\ sink_stops = 0
    /\ interrupted = "none"
    /\ outcome = "none"
    /\ stepping = Idle

InitFrom(n, pl) == InitRun(n, pl, WorkBound(pl))

Init == \E n \in MachineCounts : \E pl \in PlansFor(n) : InitFrom(n, pl)

ScenarioInit == \E n \in MachineCounts : \E pl \in ScenarioPlansFor(n) : InitFrom(n, pl)

\* ------------------------------------------------------ the run loop
\* Environment.step(): the head event may fire
\* an off-by-one in the limit: events due one time unit after till still fire
RunLimitMut == IF till = None THEN None ELSE till + 1
\* super().run(*args, **kwargs): till is handed on to the run loop as given
RunLimit == till

CanFire ==
    /\ running
    /\ fault = "none"
    /\ stepping = Idle
    /\ event_list # <<>>
    /\ RunLimit = None \/ Head(event_list).t <= RunLimit

Current == Head(event_list).c
DueTime == Head(event_list).t
Rest == Tail(event_list)

\* ------------------------------------------------------ Machine.process
\* the guard dropped: the machine pops without looking at the queue
LoopGuardMut(m) == FALSE
\* while len(self.machine_queue) == 0
LoopGuard(m) == Len(machine_queue[m]) = 0

\* the point of suspension forgotten: a resumed machine may as well start
\* over at the top of its loop
AtLoopTopMut(m) == TRUE
\* the machine is at the top of its loop: first run, woken from passivate,
\* or back from the turnaround hold
AtLoopTop(m) == mpc[m] \in {"start", "passive", "turnaround"}

\* the tail taken instead of the head
TakeFromQueueMut(q) == [item |-> q[Len(q)], rest |-> SubSeq(q, 1, Len(q) - 1)]
\* the head is read but left in the queue
TakeFromQueuePeek(q) == [item |-> Head(q), rest |-> q]
\* self.current_part = self.machine_queue.pop()
TakeFromQueue(q) == Pop(q)

\* the sign of the duration slipped: a hold into the past
ProcessingHoldNeg(p) == 0 - part_list[p].current_processing_time
\* yield self.hold(self.current_part.current_processing_time)
ProcessingHold(p) == part_list[p].current_processing_time

\* the recomputation left out: cycle_time stays what the publisher last wrote
CycleTimeAtFinishMut(m, t) == cycle_time[m]
\* the subtraction of the cycle's start forgotten
CycleTimeAtFinishNow(m, t) == t
\* self.cycle_time = self.environment.now() - self.cycle_time_start
CycleTimeAtFinish(m, t) == t - cycle_time_start[m]

\* queue empty at the loop top: yield self.passivate()
MachineIdle(m) ==
    /\ CanFire
    /\ Current = MachineC(m)
    /\ AtLoopTop(m)
    /\ LoopGuard(m)
    /\ now' = DueTime
    /\ event_list' = Rest
    /\ status' = [status EXCEPT ![MachineC(m)] = "passive"]
    /\ mpc' = [mpc EXCEPT ![m] = "passive"]
    /\ trace' = Append(trace, Log("passivate", DueTime, m, None, 0, 0))
    /\ UNCHANGED <<number_of_machines, production_plan, till, running, fault,
                   machine_queue, parts, cycle_time_start, cycle_time, operating_time,
                   machine_status, current_part, part_list, published, sinkVars, endVars>>

\* queue not empty at the loop top: pop, mark busy, hold for the processing time
MachineStart(m) ==
    /\ CanFire
    /\ Current = MachineC(m)
    /\ AtLoopTop(m)
    /\ ~LoopGuard(m)
    /\ now' = DueTime
    /\ IF machine_queue[m] = <<>>
       THEN /\ fault' = "EmptyQueueError"
            /\ event_list' = Rest
            /\ status' = [status EXCEPT ![MachineC(m)] = "data"]
            /\ UNCHANGED <<machineVars, trace>>
       ELSE LET got == TakeFromQueue(machine_queue[m])
                p == got.item
            IN /\ fault' = "none"
               /\ machine_queue' = [machine_queue EXCEPT ![m] = got.rest]
               /\ current_part' = [current_part EXCEPT ![m] = p]
               /\ machine_status' = [machine_status EXCEPT ![m] = 1]
               /\ cycle_time_start' = [cycle_time_start EXCEPT ![m] = DueTime]
               /\ cycle_time' = [cycle_time EXCEPT ![m] = 0]
               /\ event_list' = Hold(Rest, MachineC(m), DueTime, ProcessingHold(p))
               /\ status' = [status EXCEPT ![MachineC(m)] = "scheduled"]
               /\ mpc' = [mpc EXCEPT ![m] = "processing"]
               /\ trace' = Append(trace, Log("pop", DueTime, m, p, part_list[p].idx,
                                             ProcessingHold(p)))
               /\ UNCHANGED <<parts, operating_time>>
    /\ UNCHANGED <<number_of_machines, production_plan, till, running, part_list, published,
                   sinkVars, endVars>>

\* Component.activate() of a part: a passive or scheduled part is (re)scheduled
\* now; a part whose process has ended (data) starts its process again
ActivatedPart(pl, p) ==
    IF status[PartC(p)] = "data" THEN [pl EXCEPT ![p].idx = 0] ELSE pl

\* back from the processing hold: counters, activate the part, turnaround hold
MachineFinish(m) ==
    /\ CanFire
    /\ Current = MachineC(m)
    /\ mpc[m] = "processing"
    /\ now' = DueTime
    /\ LET p == current_part[m]
           ct == CycleTimeAtFinish(m, DueTime)
       IN /\ machine_status' = [machine_status EXCEPT ![m] = 0]
          /\ parts' = [parts EXCEPT ![m] = @ + 1]
          /\ cycle_time' = [cycle_time EXCEPT ![m] = ct]
          /\ operating_time' = [operating_time EXCEPT ![m] = @ + ct]
          /\ part_list' = ActivatedPart(part_list, p)
          /\ current_part' = [current_part EXCEPT ![m] = None]
          /\ event_list' = Hold(Activate(Rest, PartC(p), DueTime), MachineC(m),
                                DueTime, Turnaround)
          /\ status' = [status EXCEPT ![PartC(p)] = "scheduled",
                                      ![MachineC(m)] = "scheduled"]
          /\ mpc' = [mpc EXCEPT ![m] = "turnaround"]
          /\ trace' = Append(trace, Log("finish", DueTime, m, p, part_list[p].idx, ct))
    /\ UNCHANGED <<number_of_machines, production_plan, till, running, fault,
                   machine_queue, cycle_time_start, published, sinkVars, endVars>>

\* ------------------------- Machine.process, one statement group at a time
\* MachineStart and MachineFinish in two steps each, with the machine
\* current in between: the pop (288), then status, cycle start and the
\* processing hold (291-300); the status reset (303), then the counters, the
\* part's activation and the turnaround hold (305-320).

\* a yield self.hold(0) slipped in after the pop
SuspensionPointsMut == {"passive", "popped", "processing", "turnaround"}
\* the yields of Machine.process: passivate, processing hold, turnaround hold
SuspensionPoints == {"passive", "processing", "turnaround"}

\* self.current_part = self.machine_queue.pop()
MachinePops(m) ==
    /\ CanFire
    /\ Current = MachineC(m)
    /\ AtLoopTop(m)
    /\ ~LoopGuard(m)
    /\ now' = DueTime
    /\ LET got == TakeFromQueue(machine_queue[m])
           p == got.item
       IN /\ machine_queue' = [machine_queue EXCEPT ![m] = got.rest]
          /\ current_part' = [current_part EXCEPT ![m] = p]
          /\ trace' = Append(trace, Log("pop", DueTime, m, p, part_list[p].idx,
                                        ProcessingHold(p)))
    /\ mpc' = [mpc EXCEPT ![m] = "popped"]
    /\ IF "popped" \in SuspensionPoints
       THEN /\ event_list' = Hold(Rest, MachineC(m), DueTime, 0)
            /\ status' = [status EXCEPT ![MachineC(m)] = "scheduled"]
            /\ stepping' = Idle
       ELSE /\ event_list' = Rest
            /\ status' = [status EXCEPT ![MachineC(m)] = "current"]
            /\ stepping' = MachineC(m)
    /\ UNCHANGED <<number_of_machines, production_plan, till, running, fault, parts,
                   cycle_time_start, cycle_time, operating_time, machine_status,
                   part_list, published, last_publish, writes, endVars>>

\* machine_status = 1, cycle_time_start = now, cycle_time = 0, the processing hold
MachineMarksBusy(m) ==
    /\ mpc[m] = "popped"
    /\ IF "popped" \in SuspensionPoints
       THEN CanFire /\ Current = MachineC(m)
       ELSE running /\ fault = "none" /\ stepping = MachineC(m)
    /\ LET fired == "popped" \in SuspensionPoints
           t == IF fired THEN DueTime ELSE now
           pending == IF fired THEN Rest ELSE event_list
       IN /\ now' = t
          /\ machine_status' = [machine_status EXCEPT ![m] = 1]
          /\ cycle_time_start' = [cycle_time_start EXCEPT ![m] = t]
          /\ cycle_time' = [cycle_time EXCEPT ![m] = 0]
          /\ event_list' = Hold(pending, MachineC(m), t, ProcessingHold(current_part[m]))
    /\ status' = [status EXCEPT ![MachineC(m)] = "scheduled"]
    /\ mpc' = [mpc EXCEPT ![m] = "processing"]
    /\ stepping' = Idle
    /\ UNCHANGED <<number_of_machines, production_plan, till, running, fault, machine_queue,
                   parts, operating_time, current_part, part_list, published, trace,
                   last_publish, writes, endVars>>

\* back from the processing hold: self.machine_status = 0
MachineResets(m) ==
    /\ CanFire
    /\ Current = MachineC(m)
    /\ mpc[m] = "processing"
    /\ now' = DueTime
    /\ event_list' = Rest
    /\ machine_status' = [machine_status EXCEPT ![m] = 0]
    /\ status' = [status EXCEPT ![MachineC(m)] = "current"]
    /\ mpc' = [mpc EXCEPT ![m] = "reset"]
    /\ stepping' = MachineC(m)
    /\ UNCHANGED <<number_of_machines, production_plan, till, running, fault, machine_queue,
                   parts, cycle_time_start, cycle_time, operating_time, current_part,
                   part_list, published, trace, last_publish, writes, endVars>>

\* parts += 1, cycle_time, operating_time, current_part.activate(),
\* current_part = None, the turnaround hold
MachineUpdates(m) ==
    /\ running
    /\ fault = "none"
    /\ stepping = MachineC(m)
    /\ mpc[m] = "reset"
    /\ LET p == current_part[m]
           ct == CycleTimeAtFinish(m, now)
       IN /\ parts' = [parts EXCEPT ![m] = @ + 1]
          /\ cycle_time' = [cycle_time EXCEPT ![m] = ct]
          /\ operating_time' = [operating_time EXCEPT ![m] = @ + ct]
          /\ part_list' = ActivatedPart(part_list, p)
          /\ current_part' = [current_part EXCEPT ![m] = None]
          /\ event_list' = Hold(Activate(event_list, PartC(p), now), MachineC(m),
                                now, Turnaround)
          /\ status' = [status EXCEPT ![PartC(p)] = "scheduled",
                                      ![MachineC(m)] = "scheduled"]
          /\ trace' = Append(trace, Log("finish", now, m, p, part_list[p].idx, ct))
    /\ mpc' = [mpc EXCEPT ![m] = "turnaround"]
    /\ stepping' = Idle
    /\ UNCHANGED <<number_of_machines, production_plan, till, now, running, fault,
                   machine_queue, cycle_time_start, machine_status, published,
                   last_publish, writes, endVars>>

\* --------------------------------------------------------- Part.process
\* the wake-up of the machine left out
MachineNeverPassive(m) == FALSE
\* the test dropped: the machine is activated whatever it is doing
MachineAlwaysActivated(m) == TRUE
\* if self.current_machine.ispassive()
MachineIsPassive(m) == status[MachineC(m)] = "passive"

\* yield self.hold(0) in place of the passivate: the part does not wait
PartYieldMut == "scheduled"
\* the part's status after its loop body: yield self.passivate()
PartYield == "passive"

\* one iteration of the for loop: enter the machine's queue, wake the machine
\* if it is passive, passivate
PartEnter(p) ==
    /\ CanFire
    /\ Current = PartC(p)
    /\ part_list[p].idx < Len(part_list[p].machining_sequence)
    /\ now' = DueTime
    /\ LET k == part_list[p].idx + 1
           sequence == part_list[p].machining_sequence[k]
           m == sequence[1]
       IN IF m \notin MachineIds
          THEN /\ fault' = "IndexError"
               /\ event_list' = Rest
               /\ status' = [status EXCEPT ![PartC(p)] = "data"]
               /\ UNCHANGED <<machine_queue, part_list, trace>>
          ELSE IF InQueue(machine_queue[m], p)
          THEN /\ fault' = "AlreadyInQueue"
               /\ event_list' = Rest
               /\ status' = [status EXCEPT ![PartC(p)] = "data"]
               /\ part_list' = [part_list EXCEPT ![p].idx = k,
                                                 ![p].current_sequence = sequence,
                                                 ![p].current_machine = m,
                                                 ![p].current_processing_time = sequence[2]]
               /\ UNCHANGED <<machine_queue, trace>>
          ELSE /\ fault' = "none"
               /\ part_list' = [part_list EXCEPT ![p].idx = k,
                                                 ![p].current_sequence = sequence,
                                                 ![p].current_machine = m,
                                                 ![p].current_processing_time = sequence[2]]
               /\ machine_queue' = [machine_queue EXCEPT ![m] = Enter(@, p)]
               /\ IF MachineIsPassive(m)
                  THEN /\ event_list' =
                            IF PartYield = "passive"
                            THEN Activate(Rest, MachineC(m), DueTime)
                            ELSE Schedule(Activate(Rest, MachineC(m), DueTime), PartC(p), DueTime)
                       /\ status' = [status EXCEPT ![MachineC(m)] = "scheduled",
                                                   ![PartC(p)] = PartYield]
                  ELSE /\ event_list' =
                            IF PartYield = "passive" THEN Rest
                            ELSE Schedule(Rest, PartC(p), DueTime)
                       /\ status' = [status EXCEPT ![PartC(p)] = PartYield]
               /\ trace' = Append(trace, Log("enter", DueTime, m, p, k, sequence[2]))
    /\ UNCHANGED <<number_of_machines, production_plan, till, running, mpc, parts,
                   cycle_time_start, cycle_time, operating_time, machine_status,
                   current_part, published, sinkVars, endVars>>

\* the for loop is exhausted: the process ends
PartTerminate(p) ==
    /\ CanFire
    /\ Current = PartC(p)
    /\ part_list[p].idx >= Len(part_list[p].machining_sequence)
    /\ now' = DueTime
    /\ event_list' = Rest
    /\ status' = [status EXCEPT ![PartC(p)] = "data"]
    /\ trace' = Append(trace, Log("terminate", DueTime, None, p, part_list[p].idx, 0))
    /\ UNCHANGED <<number_of_machines, production_plan, till, running, fault,
                   machineVars, part_list, published, sinkVars, endVars>>

\* ------------------------------------------------ PartGenerator.process
RECURSIVE Digits(_)
Digits(i) == IF i < 10 THEN 1 ELSE 1 + Digits(i \div 10)
RECURSIVE Pow10(_)
Pow10(k) == IF k = 0 THEN 1 ELSE 10 * Pow10(k - 1)
\* int(str(part_family[1]) + str(part))
PartNumber(family, part) == family * Pow10(Digits(part)) + part

NewPart(entry, part) ==
    [part_family_number |-> entry.family,
     part_number |-> PartNumber(entry.family, part),
     machining_sequence |-> entry.routing,
     idx |-> 0,
     current_sequence |-> <<>>,
     current_machine |-> None,
     current_processing_time |-> 0]

\* range(1, part_family[2]): one part too few per family
PartsOfMut(pl) ==
    LET rows == [i \in 1 .. Len(pl) |->
                    [j \in 1 .. (pl[i].quantity - 1) |-> NewPart(pl[i], j)]]
        flat[i \in 0 .. Len(pl)] == IF i = 0 THEN <<>> ELSE flat[i - 1] \o rows[i]
    IN flat[Len(pl)]
\* for part_family in part_details: for part in range(part_family[2]): Part(...)
RECURSIVE PartsOf(_)
PartsOf(pl) ==
    IF pl = <<>> THEN <<>>
    ELSE [j \in 1 .. Head(pl).quantity |-> NewPart(Head(pl), j - 1)] \o PartsOf(Tail(pl))

GeneratorStep ==
    /\ CanFire
    /\ Current = GeneratorC
    /\ now' = DueTime
    /\ LET created == PartsOf(production_plan)
           first == Len(part_list)
           ids == (first + 1) .. (first + Len(created))
       IN /\ part_list' = part_list \o created
          \* every new component is scheduled for now, in creation order
          /\ event_list' = Rest \o [j \in 1 .. Len(created) |->
                                       [t |-> DueTime, c |-> PartC(first + j)]]
          /\ status' = [c \in DOMAIN status \cup {PartC(p) : p \in ids} |->
                           IF c = GeneratorC THEN "data"
                           ELSE IF c \in DOMAIN status THEN status[c] ELSE "scheduled"]
    /\ UNCHANGED <<number_of_machines, production_plan, till, running, fault,
                   machineVars, published, trace, sinkVars, endVars>>

\* ----------------------------------------------------- OpcServer.process
\* the nodes of a machine's OPC object, in the order they were added
NodeFields == <<"machine_id", "part_count", "cycle_time", "operating_time">>

\* range(2, ...): the part count node is skipped
WrittenFieldsMut == SubSeq(NodeFields, 3, Len(NodeFields))
\* for inner_index in range(1, len(machine_parameters)): every node but machine_id
WrittenFields == SubSeq(NodeFields, 2, Len(NodeFields))

\* the recomputation for a busy machine left out: the stored values are sent
MachineDataStale(m, t) ==
    [part_count |-> parts[m], cycle_time |-> cycle_time[m],
     operating_time |-> operating_time[m]]
\* the test of machine_status left out: every machine is recomputed
MachineDataAlways(m, t) ==
    [part_count |-> parts[m], cycle_time |-> t - cycle_time_start[m],
     operating_time |-> operating_time[m] + (t - cycle_time_start[m])]
\* the row written for machine m at time t
MachineData(m, t) ==
    LET busy == machine_status[m] = 1
        ct == IF busy THEN t - cycle_time_start[m] ELSE cycle_time[m]
    IN [part_count |-> parts[m], cycle_time |-> ct,
        operating_time |-> IF busy THEN operating_time[m] + ct ELSE operating_time[m]]

\* machine m's nodes after write_value of the fields fs of the row
Written(m, row, fs) ==
    [f \in DOMAIN published[m] |->
        IF \E i \in 1 .. Len(fs) : fs[i] = f THEN row[f] ELSE published[m][f]]

\* yield self.hold(2): every other instant is skipped
PublishHoldMut == PublishInterval + 1
\* yield self.hold(1)
PublishHold == PublishInterval

\* one pass of the while loop: every machine sampled and written, hold(1)
ServerStep ==
    /\ CanFire
    /\ Current = ServerC
    /\ now' = DueTime
    /\ cycle_time' = [m \in MachineIds |-> MachineData(m, DueTime).cycle_time]
    /\ published' = [m \in MachineIds |-> Written(m, MachineData(m, DueTime), WrittenFields)]
    /\ writes' = [m \in MachineIds |-> WrittenFields]
    /\ last_publish' = DueTime
    /\ stepping' = stepping
    /\ event_list' = Hold(Rest, ServerC, DueTime, PublishHold)
    /\ UNCHANGED <<number_of_machines, production_plan, till, running, fault, status,
                   mpc, machine_queue, parts, cycle_time_start, operating_time,
                   machine_status, current_part, part_list, trace, endVars>>

\* what main() does with an exception that leaves run(): _post_simulation
\* is skipped; except Exception prints the error
ExceptionInRun == [running |-> FALSE, outcome |-> "error", stops |-> 0]

\* a pass of the while loop in which write_value raises for machine m's
\* k-th written node: the machines before m are written, machine m up to
\* node k - 1; the exception leaves the process, the run loop and run()
ServerStepFails(m, k) ==
    /\ CanFire
    /\ Current = ServerC
    /\ now' = DueTime
    /\ cycle_time' = [j \in MachineIds |->
                         IF j <= m THEN MachineData(j, DueTime).cycle_time ELSE cycle_time[j]]
    /\ published' = [j \in MachineIds |->
                        IF j < m THEN Written(j, MachineData(j, DueTime), WrittenFields)
                        ELSE IF j = m
                        THEN Written(j, MachineData(j, DueTime), SubSeq(WrittenFields, 1, k - 1))
                        ELSE published[j]]
    /\ writes' = [j \in MachineIds |->
                     IF j < m THEN WrittenFields
                     ELSE IF j = m THEN SubSeq(WrittenFields, 1, k - 1) ELSE <<>>]
    /\ last_publish' = DueTime
    /\ stepping' = stepping
    /\ event_list' = Rest
    /\ status' = [status EXCEPT ![ServerC] = "data"]
    /\ fault' = "SinkError"
    /\ running' = ExceptionInRun.running
    /\ outcome' = ExceptionInRun.outcome
    /\ sink_stops' = sink_stops + ExceptionInRun.stops
    /\ UNCHANGED <<number_of_machines, production_plan, till, mpc, machine_queue, parts,
                   cycle_time_start, operating_time, machine_status, current_part,
                   part_list, trace, interrupted>>

\* ------------------------------------------------------------ run(till)
\* _post_simulation() left out of run()
PostSimulationMut == 1 - 1
\* self._post_simulation(): self.opc_server.stop()
PostSimulation == 1

\* main, scheduled at till behind every other event (or the event list
\* running empty), ends super().run(); run() goes on to _post_simulation()
\* and main() prints "Simulation Successfully Over"
EndRun ==
    /\ running
    /\ fault = "none"
    /\ stepping = Idle
    /\ event_list = <<>> \/ (RunLimit # None /\ Head(event_list).t > RunLimit)
    /\ running' = FALSE
    /\ now' = IF RunLimit = None THEN now ELSE RunLimit
    /\ sink_stops' = sink_stops + PostSimulation
    /\ outcome' = "success"
    /\ UNCHANGED <<number_of_machines, production_plan, till, fault, event_list, status,
                   machineVars, part_list, published, trace, sinkVars, interrupted>>

\* -------------------------------------------------- the operator's keys
\* sys.exit() left out: animation_pre_tick returns and the run goes on
SysExitMut == [running |-> TRUE, fault |-> "none", outcome |-> "none"]
\* sys.exit(): SystemExit leaves animation_pre_tick, the run loop, run() and
\* main(), which catches KeyboardInterrupt and Exception only
SysExit == [running |-> FALSE, fault |-> "SystemExit", outcome |-> "exit"]

\* animation_pre_tick finds the 'q' key pressed: stop(), sys.exit()
CancelRun ==
    /\ running
    /\ fault = "none"
    /\ interrupted = "none"
    /\ interrupted' = "q"
    /\ sink_stops' = sink_stops + 1
    /\ running' = SysExit.running
    /\ fault' = SysExit.fault
    /\ outcome' = SysExit.outcome
    /\ UNCHANGED <<number_of_machines, production_plan, till, now, event_list, status,
                   machineVars, part_list, published, trace, sinkVars>>

\* Ctrl-C while run() is running: KeyboardInterrupt leaves run() before
\* _post_simulation(); main() prints "Simulation Interrupted"
KeyboardInterrupt ==
    /\ running
    /\ fault = "none"
    /\ interrupted = "none"
    /\ interrupted' = "ctrl-c"
    /\ fault' = "KeyboardInterrupt"
    /\ running' = FALSE
    /\ outcome' = "interrupted"
    /\ UNCHANGED <<number_of_machines, production_plan, till, now, event_list, status,
                   machineVars, part_list, published, trace, sinkVars, sink_stops>>

Next ==
    \/ \E m \in MachineIds : MachineIdle(m)
    \/ \E m \in MachineIds : MachineStart(m)
    \/ \E m \in MachineIds : MachineFinish(m)
    \/ \E p \in 1 .. Len(part_list) : PartEnter(p)
    \/ \E p \in 1 .. Len(part_list) : PartTerminate(p)
    \/ GeneratorStep
    \/ ServerStep
    \/ EndRun

Spec == Init /\ [][Next]_vars

ScenarioSpec == ScenarioInit /\ [][Next]_vars

\* the run loop keeps firing events for as long as one may fire
FairSpec == Init /\ [][Next]_vars /\ WF_vars(Next)

\* the run with what may end it early: the operator's keys and a failing sink
RunNext ==
    \/ Next
    \/ \E m \in MachineIds : \E k \in 1 .. Len(WrittenFields) : ServerStepFails(m, k)
    \/ CancelRun
    \/ KeyboardInterrupt

RunSpec == Init /\ [][RunNext]_vars

\* the run with the machines' steps one statement group at a time
StepNext ==
    \/ \E m \in MachineIds : MachineIdle(m)
    \/ \E m \in MachineIds : MachinePops(m)
    \/ \E m \in MachineIds : MachineMarksBusy(m)
    \/ \E m \in MachineIds : MachineResets(m)
    \/ \E m \in MachineIds : MachineUpdates(m)
    \/ \E p \in 1 .. Len(part_list) : PartEnter(p)
    \/ \E p \in 1 .. Len(part_list) : PartTerminate(p)
    \/ GeneratorStep
    \/ ServerStep
    \/ EndRun

StepSpec == Init /\ [][StepNext]_vars

\* plans whose family numbers differ in their number of digits, with
\* families of more than ten parts: one machine, every part one step on it
NumberingFamilies == {1, 11, 100000}
NumberingQuantities == {1, 11}
NumberingPlans ==
    {<<[family |-> a, quantity |-> x, routing |-> <<(<<0, d>>)>>],
       [family |-> b, quantity |-> y, routing |-> <<(<<0, d>>)>>]>> :
        <<a, b, x, y, d>> \in {v \in NumberingFamilies \X NumberingFamilies \X
                                  NumberingQuantities \X NumberingQuantities \X Durations :
                                  v[1] # v[2]}}
NumberingInit == \E pl \in NumberingPlans : InitFrom(1, pl)

NumberingSpec == NumberingInit /\ [][Next]_vars

\* run() with and without a time limit: environment.run() of main has no
\* till (None), environment.run(till=...) of the older main has one, which
\* may come before the plan's work is over
RunTillInit ==
    \E n \in MachineCounts : \E pl \in ScenarioPlansFor(n) :
        \E t \in {None} \cup (0 .. WorkBound(pl)) : InitRun(n, pl, t)

\* the run loop keeps firing events for as long as one may fire
RunTillSpec == RunTillInit /\ [][Next]_vars /\ WF_vars(Next)

\* ------------------------------------------------- run() called again
\* server.start() at the end of OpcServer.__init__: once, when the
\* environment is constructed, before any process has run
SinkStarts == 1

\* a further run(till=t) on the same environment, after run() has returned
\* or after main's except clause has caught a KeyboardInterrupt: the run
\* loop goes on with the events that are pending; nothing starts the sink
\* again
RunAgain ==
    /\ ~running
    /\ outcome \in {"success", "interrupted"}
    /\ till # None
    /\ \E t \in (till + 1) .. WorkBound(production_plan) : till' = t
    /\ running' = TRUE
    /\ fault' = "none"
    /\ outcome' = "none"
    /\ interrupted' = "none"
    /\ UNCHANGED <<number_of_machines, production_plan, now, event_list, status,
                   machineVars, part_list, published, trace, sinkVars, sink_stops>>

RerunInit ==
    \E n \in MachineCounts : \E pl \in ScenarioPlansFor(n) :
        \E t \in 0 .. WorkBound(pl) : InitRun(n, pl, t)

RerunNext ==
    \/ RunNext
    \/ RunAgain

RerunSpec == RerunInit /\ [][RerunNext]_vars

\* ------------------------------------------- the single-machine demo
\* src/one_machine.py: one machine that works for ever on its own, 10 in a
\* cycle and 3 between cycles, and an animation_pre_tick that samples it;
\* run(till=40).  last_publish is the animation time of the last tick,
\* published the message it printed.
OneCycle == 10
OneGap == 3
OneTill == 40

\* self.operating_time() + self.cycle_time(): the value last tallied
OneCycleTimeAtFinish(m, t) == cycle_time[m]

OneMachineInit ==
    /\ number_of_machines = 1
    /\ production_plan = <<>>
    /\ till = OneTill
    /\ now = 0
    /\ running = TRUE
    /\ fault = "none"
    /\ event_list = <<[t |-> 0, c |-> MachineC(0)]>>
    /\ status = [c \in {MachineC(0)} |-> "scheduled"]
    /\ mpc = [m \in {0} |-> "start"]
    /\ machine_queue = [m \in {0} |-> <<>>]
    /\ parts = [m \in {0} |-> 0]
    /\ cycle_time_start = [m \in {0} |-> 0]
    /\ cycle_time = [m \in {0} |-> 0]
    /\ operating_time = [m \in {0} |-> 0]
    /\ machine_status = [m \in {0} |-> 0]
    /\ current_part = [m \in {0} |-> None]
    /\ part_list = <<>>
    /\ published = [m \in {0} |-> [part_count |-> 0, cycle_time |-> 0,
                                    operating_time |-> 0]]
    /\ trace = <<>>
    /\ last_publish = None
    /\ writes = [m \in {0} |-> <<>>]
    /\ sink_stops = 0
    /\ interrupted = "none"
    /\ outcome = "none"
    /\ stepping = Idle

\* the loop top: status 1, cycle_time_start = now, cycle_time 0, hold(10)
OneMachineStart ==
    /\ CanFire
    /\ Current = MachineC(0)
    /\ mpc[0] \in {"start", "turnaround"}
    /\ now' = DueTime
    /\ machine_status' = [machine_status EXCEPT ![0] = 1]
    /\ cycle_time_start' = [cycle_time_start EXCEPT ![0] = DueTime]
    /\ cycle_time' = [cycle_time EXCEPT ![0] = 0]
    /\ event_list' = Hold(Rest, MachineC(0), DueTime, OneCycle)
    /\ mpc' = [mpc EXCEPT ![0] = "processing"]
    /\ UNCHANGED <<number_of_machines, production_plan, till, running, fault, status,
                   machine_queue, parts, operating_time, current_part, part_list,
                   published, trace, sinkVars, endVars>>

\* back from the hold: status 0, parts + 1, operating_time + cycle_time, hold(3)
OneMachineFinish ==
    /\ CanFire
    /\ Current = MachineC(0)
    /\ mpc[0] = "processing"
    /\ now' = DueTime
    /\ machine_status' = [machine_status EXCEPT ![0] = 0]
    /\ parts' = [parts EXCEPT ![0] = @ + 1]
    /\ operating_time' = [operating_time EXCEPT ![0] = @ + OneCycleTimeAtFinish(0, DueTime)]
    /\ event_list' = Hold(Rest, MachineC(0), DueTime, OneGap)
    /\ mpc' = [mpc EXCEPT ![0] = "turnaround"]
    /\ UNCHANGED <<number_of_machines, production_plan, till, running, fault, status,
                   machine_queue, cycle_time_start, cycle_time, current_part, part_list,
                   published, trace, sinkVars, endVars>>

\* animation_pre_tick(t): the animation calls it between two firings, at an
\* animation time t that is later than that of the tick before (each tick
\* sleeps), not before the last event fired and not after the next one due;
\* whether a tick falls on an instant, and on which side of an event due at
\* that instant, is the animation's affair
AnimationPreTick(t) ==
    /\ running
    /\ fault = "none"
    /\ last_publish = None \/ t > last_publish
    /\ t >= now
    /\ t <= till
    /\ event_list # <<>> => t <= DueTime
    /\ LET busy == machine_status[0] = 1
           ct == IF busy THEN t - cycle_time_start[0] ELSE cycle_time[0]
       IN /\ cycle_time' = [cycle_time EXCEPT ![0] = ct]
          /\ published' = [published EXCEPT ![0] =
                               [part_count |-> parts[0], cycle_time |-> ct,
                                operating_time |-> IF busy THEN operating_time[0] + ct
                                                   ELSE operating_time[0]]]
    /\ last_publish' = t
    /\ UNCHANGED <<number_of_machines, production_plan, till, now, running, fault,
                   event_list, status, mpc, machine_queue, parts, cycle_time_start,
                   operating_time, machine_status, current_part, part_list, trace,
                   writes, stepping, endVars>>

OneMachineNext ==
    \/ OneMachineStart
    \/ OneMachineFinish
    \/ \E t \in 0 .. OneTill : AnimationPreTick(t)

OneMachineSpec == OneMachineInit /\ [][OneMachineNext]_vars

\* ------------------------------------------ the queue demonstration
\* src/animation.py: components X that hold, enter the queue q, hold and
\* leave it again, for ever; the run has a time limit, and the model stops
\* after MaxOps enters and leaves (holds of 0 repeat without end at one
\* instant).  The queue q is
\* machine_queue[0], mpc[i] is the yield X(i) is suspended at, and the
\* history records every enter and leave with the queue before and after.
XIds == 0 .. (MaxX - 1)
XC(i) == <<"X", i>>
\* sim.Uniform(0, 20)(): a duration drawn anew for every hold
HoldTimes == 0 .. MaxHold
TheQueue == machine_queue[0]

\* q.pop() in place of self.leave(): the head leaves, whoever it is
XLeavesPop(q, i) == Tail(q)
\* self.leave()
XLeaves(q, i) == Leave(q, XC(i))
\* self.enter(q)
XEnters(q, i) == Enter(q, XC(i))

QueueLog(ev, t, i, before, after) ==
    [ev |-> ev, t |-> t, p |-> i, before |-> before, after |-> after]

\* [X(i=i) for i in range(15)], env.run(till=10)
AnimationInit ==
    /\ number_of_machines = 0
    /\ production_plan = <<>>
    /\ till = MaxTill
    /\ now = 0
    /\ running = TRUE
    /\ fault = "none"
    /\ event_list = [k \in 1 .. MaxX |-> [t |-> 0, c |-> XC(k - 1)]]
    /\ status = [c \in {XC(i) : i \in XIds} |-> "scheduled"]
    /\ mpc = [i \in XIds |-> "start"]
    /\ machine_queue = [x \in {0} |-> <<>>]
    /\ parts = <<>>
    /\ cycle_time_start = <<>>
    /\ cycle_time = <<>>
    /\ operating_time = <<>>
    /\ machine_status = <<>>
    /\ current_part = <<>>
    /\ part_list = <<>>
    /\ published = <<>>
    /\ trace = <<>>
    /\ last_publish = None
    /\ writes = <<>>
    /\ sink_stops = 0
    /\ interrupted = "none"
    /\ outcome = "none"
    /\ stepping = Idle

\* the first run of X(i), or its run after self.leave(): the hold of line 32
XHold(i) ==
    /\ CanFire
    /\ Current = XC(i)
    /\ mpc[i] = "start"
    /\ now' = DueTime
    /\ \E d \in HoldTimes : event_list' = Hold(Rest, XC(i), DueTime, d)
    /\ mpc' = [mpc EXCEPT ![i] = "out"]
    /\ UNCHANGED <<number_of_machines, production_plan, till, running, fault, status,
                   machine_queue, parts, cycle_time_start, cycle_time, operating_time,
                   machine_status, current_part, part_list, published, trace,
                   sinkVars, endVars>>

\* back from the first hold: self.enter(q), then the hold of line 34
XEnter(i) ==
    /\ CanFire
    /\ Current = XC(i)
    /\ mpc[i] = "out"
    /\ Len(trace) < MaxOps
    /\ now' = DueTime
    /\ machine_queue' = [machine_queue EXCEPT ![0] = XEnters(@, i)]
    /\ trace' = Append(trace, QueueLog("enter", DueTime, i, TheQueue, XEnters(TheQueue, i)))
    /\ \E d \in HoldTimes : event_list' = Hold(Rest, XC(i), DueTime, d)
    /\ mpc' = [mpc EXCEPT ![i] = "in"]
    /\ UNCHANGED <<number_of_machines, production_plan, till, running, fault, status,
                   parts, cycle_time_start, cycle_time, operating_time,
                   machine_status, current_part, part_list, published,
                   sinkVars, endVars>>

\* back from the second hold: self.leave(); the loop goes round without a
\* yield, so the hold of line 32 follows in the same run
XLeave(i) ==
    /\ CanFire
    /\ Current = XC(i)
    /\ mpc[i] = "in"
    /\ Len(trace) < MaxOps
    /\ now' = DueTime
    /\ machine_queue' = [machine_queue EXCEPT ![0] = XLeaves(@, i)]
    /\ trace' = Append(trace, QueueLog("leave", DueTime, i, TheQueue, XLeaves(TheQueue, i)))
    /\ \E d \in HoldTimes : event_list' = Hold(Rest, XC(i), DueTime, d)
    /\ mpc' = [mpc EXCEPT ![i] = "out"]
    /\ UNCHANGED <<number_of_machines, production_plan, till, running, fault, status,
                   parts, cycle_time_start, cycle_time, operating_time,
                   machine_status, current_part, part_list, published,
                   sinkVars, endVars>>

AnimationNext ==
    \/ \E i \in XIds : XHold(i)
    \/ \E i \in XIds : XEnter(i)
    \/ \E i \in XIds : XLeave(i)

AnimationSpec == AnimationInit /\ [][AnimationNext]_vars

TypeOK ==
    /\ now \in Nat
    /\ \A m \in MachineIds : machine_status[m] \in {0, 1}

\* ------------------------------------------------------ history helpers
Events(ev) == {i \in 1 .. Len(trace) : trace[i].ev = ev}
EventsAt(ev, m) == {i \in Events(ev) : trace[i].m = m}
EventsOf(ev, p) == {i \in Events(ev) : trace[i].p = p}
Created == 1 .. Len(part_list)

\* the (part, step) pairs of the events ev of machine m, in order
StepsLogged(ev, m) ==
    LET s == SelectSeq(trace, LAMBDA e : e.ev = ev /\ e.m = m)
    IN [i \in 1 .. Len(s) |-> <<s[i].p, s[i].k>>]

IsPrefix(s, t) == Len(s) <= Len(t) /\ SubSeq(t, 1, Len(s)) = s

\* ------------------------------------------------------------------ C1
\* C1: every machine pops and starts parts in exactly the order in which
\* they entered its queue: the sequence of (part, step) popped by machine m
\* is at all times a prefix of the sequence of (part, step) that entered
\* m's queue.
C1_FCFS == \A m \in MachineIds : IsPrefix(StepsLogged("pop", m), StepsLogged("enter", m))

\* two parts waited together in one queue and both have been popped
C1_Witness ==
    \E m \in MachineIds : \E i, j \in EventsAt("enter", m) : \E a, b \in EventsAt("pop", m) :
        /\ i < j /\ j < a /\ a < b
        /\ trace[a].p = trace[i].p /\ trace[b].p = trace[j].p
        /\ trace[i].p # trace[j].p

\* ------------------------------------------------------------------ C2
\* Scenario C: two parts, both routed to machine 0 only, for 2 and 3 time units
ScenarioC == PlansOf(2, {1}, {<<(<<0, 2>>)>>, <<(<<0, 3>>)>>})
IsScenarioC ==
    /\ production_plan \in ScenarioC
    /\ production_plan[1].routing = <<(<<0, 2>>)>>
    /\ production_plan[2].routing = <<(<<0, 3>>)>>

\* C2: in scenario C both parts enter machine 0's queue at t=0, part 1 first;
\* part 1 finishes at t=2, part 2 starts at t=5 (after the turnaround of 3)
\* and finishes at t=8; by the end of the run all of this has happened.
C2_ScenarioC ==
    IsScenarioC =>
        /\ \A i \in EventsAt("enter", 0) : trace[i].t = 0
        /\ \A i \in EventsOf("enter", 1) : \A j \in EventsOf("enter", 2) : i < j
        /\ \A i \in EventsOf("pop", 1) : trace[i].t = 0
        /\ \A i \in EventsOf("finish", 1) : trace[i].t = 2
        /\ \A i \in EventsOf("pop", 2) : trace[i].t = 5
        /\ \A i \in EventsOf("finish", 2) : trace[i].t = 8
        /\ ~running =>
              /\ EventsOf("finish", 1) # {}
              /\ EventsOf("pop", 2) # {}
              /\ EventsOf("finish", 2) # {}
              /\ parts[0] = 2

C2_Witness == IsScenarioC /\ ~running /\ parts[0] = 2 /\ fault = "none"

\* ------------------------------------------------------------------ C3
\* Scenario A: one machine, one part with routing [(0, 2)]
IsScenarioA ==
    /\ number_of_machines = 1
    /\ production_plan = <<[family |-> FamilyNumber(1), quantity |-> 1,
                            routing |-> <<(<<0, 2>>)>>]>>

ScenarioATrace ==
    <<Log("passivate", 0, 0, None, 0, 0),   \* the machine finds its queue empty
      Log("enter", 0, 0, 1, 1, 2),          \* the part enters the queue at t=0
      Log("pop", 0, 0, 1, 1, 2),            \* the machine starts at t=0
      Log("finish", 2, 0, 1, 1, 2),         \* the hold ends at t=2, cycle_time 2
      Log("terminate", 2, None, 1, 1, 0),   \* the part terminates at t=2
      Log("passivate", 5, 0, None, 0, 0)>>  \* turnaround over, nothing queued: t=5

Pops(m) == SelectSeq(trace, LAMBDA e : e.ev = "pop" /\ e.m = m)
Enters(m) == SelectSeq(trace, LAMBDA e : e.ev = "enter" /\ e.m = m)

\* C4: no machine ever pops an empty queue: the run is never aborted by a
\* pop on an empty queue, and at every moment a machine has popped no more
\* parts than have entered its queue, the difference being what its queue
\* holds.
C4_NoPopOnEmpty ==
    /\ fault # "EmptyQueueError"
    /\ \A m \in MachineIds :
          /\ Len(Pops(m)) <= Len(Enters(m))
          /\ Len(machine_queue[m]) = Len(Enters(m)) - Len(Pops(m))

\* a machine that passivated on an empty queue was woken by an arrival and
\* popped, and a machine came back from a turnaround to an empty queue
C4_Witness ==
    \E m \in MachineIds : \E i, j \in EventsAt("passivate", m) : \E a \in EventsAt("pop", m) :
        \E f \in EventsAt("finish", m) : i < a /\ a < f /\ f < j

\* ------------------------------------------------------------------ C5
QueuePlaces(p) ==
    {<<m, i>> \in MachineIds \X (1 .. Len(part_list) + 1) :
        i <= Len(machine_queue[m]) /\ machine_queue[m][i] = p}

\* C5: every part is a member of at most one machine queue, and at most
\* once in it, also when its routing names the same machine twice.
C5_AtMostOneQueue == \A p \in Created : Cardinality(QueuePlaces(p)) <= 1

\* a part whose routing names one machine twice in a row waits in that
\* machine's queue for its second step
C5_Witness ==
    \E p \in Created :
        /\ part_list[p].idx = 2
        /\ part_list[p].machining_sequence[1][1] = part_list[p].machining_sequence[2][1]
        /\ Cardinality(QueuePlaces(p)) = 1

\* ------------------------------------------------------------------ C6
\* every routing step of part p has been finished on its machine
Processed(p) ==
    \A k \in 1 .. Len(part_list[p].machining_sequence) :
        \E i \in EventsOf("finish", p) :
            trace[i].k = k /\ trace[i].m = part_list[p].machining_sequence[k][1]

AllPartsTerminated ==
    /\ status[GeneratorC] = "data"
    /\ Len(part_list) = TotalParts(production_plan)
    /\ \A p \in Created :
          /\ status[PartC(p)] = "data"
          /\ part_list[p].idx = Len(part_list[p].machining_sequence)
          /\ Processed(p)

\* C6: for every plan (its steps name existing machines and have durations
\* >= 0), as long as the run loop keeps firing events, eventually every part
\* of the plan has been created, has had every step of its routing processed
\* and has terminated.
C6_EveryPartTerminates == <>AllPartsTerminated

C6_Witness == AllPartsTerminated /\ Len(part_list) >= 3 /\ running

\* ------------------------------------------------------------------ C7
FinishStepEffect(m) ==
    LET p == current_part[m]
    IN /\ p \in Created
       /\ machine_status'[m] = 0
       /\ parts'[m] = parts[m] + 1
       /\ cycle_time'[m] = now' - cycle_time_start[m]
       /\ operating_time'[m] = operating_time[m] + cycle_time'[m]
       /\ status[PartC(p)] = "passive"
       /\ status'[PartC(p)] = "scheduled"
       /\ \E i \in 1 .. Len(event_list') : event_list'[i] = [t |-> now', c |-> PartC(p)]
       /\ cycle_time'[m] = part_list[p].machining_sequence[part_list[p].idx][2]
       /\ part_list[p].machining_sequence[part_list[p].idx][1] = m

\* C7: the step in which a machine resumes from its processing hold sets
\* status to idle, adds 1 to parts, sets cycle_time to now - cycle_time_start,
\* adds it to operating_time and activates the part; that cycle_time is the
\* duration of the routing step the part was queued for at this machine.
C7_FinishStep ==
    [][\A m \in MachineIds :
          (CanFire /\ Current = MachineC(m) /\ mpc[m] = "processing") => FinishStepEffect(m)]_vars

\* a cycle has finished during which the publisher sampled the machine
\* (overwriting cycle_time) and another part entered the machine's queue
C7_Witness ==
    \E m \in MachineIds : \E a \in EventsAt("pop", m) : \E f \in EventsAt("finish", m) :
        /\ a < f /\ f = Len(trace)
        /\ trace[a].p = trace[f].p /\ trace[a].k = trace[f].k
        /\ published[m].part_count = parts[m] - 1
        /\ published[m].operating_time > operating_time[m] - cycle_time[m]
        /\ \E e \in EventsAt("enter", m) : a < e /\ e < f

\* ------------------------------------------------------------------ C8
FirstStart(m) == Pops(m)[1].t

OperatingTimeBounded(m) ==
    IF Pops(m) = <<>> THEN operating_time[m] = 0
    ELSE operating_time[m] >= 0 /\ operating_time[m] <= now - FirstStart(m)

\* C8: operating_time of every machine never decreases, and is at every
\* moment at most the time elapsed since the machine's first cycle start
\* (0 while it has started none).
C8_OperatingTime ==
    /\ [](\A m \in MachineIds : OperatingTimeBounded(m))
    /\ [][\A m \in MachineIds : operating_time'[m] >= operating_time[m]]_vars

\* a machine whose first cycle started after t=0 has completed two cycles
C8_Witness ==
    \E m \in MachineIds :
        /\ parts[m] >= 2 /\ operating_time[m] > 0
        /\ Pops(m) # <<>> /\ FirstStart(m) > 0

\* ------------------------------------------------------------------ C9
\* the starts and finishes of machine m's cycles, in order
Cycles(m) == SelectSeq(trace, LAMBDA e : e.ev \in {"pop", "finish"} /\ e.m = m)

\* C9: the cycles of a machine do not overlap and are at least 3 time units
\* apart: in the history of a machine starts and finishes alternate, each
\* finish is the finish of the part started just before it, and the start
\* that follows a finish is at least 3 time units later than that finish.
C9_Turnaround ==
    \A m \in MachineIds :
        LET c == Cycles(m)
        IN \A i \in 1 .. Len(c) :
              IF i % 2 = 1
              THEN /\ c[i].ev = "pop"
                   /\ (i > 1) => c[i].t >= c[i - 1].t + 3
              ELSE /\ c[i].ev = "finish"
                   /\ c[i].p = c[i - 1].p /\ c[i].k = c[i - 1].k
                   /\ c[i].t >= c[i - 1].t

\* a part entered the queue during the turnaround that followed a cycle and
\* was started only when the turnaround was over
C9_Witness ==
    \E m \in MachineIds : \E f \in EventsAt("finish", m) : \E e \in EventsAt("enter", m) :
        \E a \in EventsAt("pop", m) :
            /\ f < e /\ e < a
            /\ trace[a].p = trace[e].p /\ trace[a].k = trace[e].k
            /\ trace[f].t < trace[e].t /\ trace[e].t < trace[a].t
            /\ trace[a].t = trace[f].t + 3

\* ----------------------------------------------------------------- C10
\* what happened to part p, in order: its own firings (enter, terminate) and
\* the pops and finishes of the machines that took it
PartLog(p) == SelectSeq(trace, LAMBDA e : e.p = p)

\* the i-th entry of part p's history is what its routing prescribes: for
\* step k the entry into the queue of the step's machine, then the pop by
\* that machine, then the finish of the full processing hold; the part
\* fires again (next entry, or termination after the last step) exactly
\* once, at the instant of that finish
FollowsRouting(p, i) ==
    LET log == PartLog(p)
        seq == part_list[p].machining_sequence
        k == ((i - 1) \div 3) + 1
        r == (i - 1) % 3
    IN IF k > Len(seq)
       THEN /\ r = 0 /\ i = Len(log)
            /\ log[i].ev = "terminate"
            /\ log[i].t = log[i - 1].t
       ELSE /\ log[i].m = seq[k][1] /\ log[i].k = k
            /\ (r = 0) => /\ log[i].ev = "enter"
                          /\ (i > 1) => log[i].t = log[i - 1].t
            /\ (r = 1) => /\ log[i].ev = "pop"
                          /\ log[i].t >= log[i - 1].t
            /\ (r = 2) => /\ log[i].ev = "finish"
                          /\ log[i].t = log[i - 1].t + seq[k][2]

\* C10: a part goes through its routing in order and never holds time:
\* while it is in a queue or on a machine it is passive; whenever it is
\* scheduled it is due at the current instant; and its history is, step by
\* step, entry into the queue of the step's machine, pop and full processing
\* hold by that machine, and one firing of the part at the instant the hold
\* finished (the entry for the next step, or its termination).
C10_PartFollowsRouting ==
    /\ \A i \in 1 .. Len(event_list) :
          event_list[i].c[1] = "P" => event_list[i].t = now
    /\ \A p \in Created :
          /\ (\E m \in MachineIds : InQueue(machine_queue[m], p) \/ current_part[m] = p)
                => status[PartC(p)] = "passive"
          /\ \A i \in 1 .. Len(PartLog(p)) : FollowsRouting(p, i)

\* a part with two steps has terminated; it entered its second queue later
\* than t=0, while the second machine was busy with another part
C10_Witness ==
    \E p \in Created :
        /\ status[PartC(p)] = "data"
        /\ Len(part_list[p].machining_sequence) = 2
        /\ \E e \in EventsOf("enter", p) : \E a \in EventsOf("pop", p) :
              /\ trace[e].k = 2 /\ trace[a].k = 2
              /\ trace[e].t > 0 /\ trace[a].t > trace[e].t

\* ----------------------------------------------------------------- C11
\* the parts created for entry i of the plan: the entries' parts follow one
\* another in part_list, in the order of the plan
EntryParts(i) ==
    LET before == SumSeq([j \in 1 .. (i - 1) |-> production_plan[j].quantity])
    IN {p \in Created : before < p /\ p <= before + production_plan[i].quantity}

GeneratorDone == status[GeneratorC] = "data"

\* C11: the generator creates, for every entry of the plan, exactly
\* `quantity` parts carrying the entry's family number and routing (in all,
\* the sum of the quantities), and it creates all of them in one firing:
\* every part is created at the same instant and scheduled for that instant.
C11_GeneratorCreates ==
    /\ [](IF GeneratorDone
          THEN /\ Len(part_list) = TotalParts(production_plan)
               /\ \A i \in 1 .. Len(production_plan) :
                     /\ Cardinality(EntryParts(i)) = production_plan[i].quantity
                     /\ \A p \in EntryParts(i) :
                           /\ part_list[p].part_family_number = production_plan[i].family
                           /\ part_list[p].machining_sequence = production_plan[i].routing
          ELSE part_list = <<>>)
    /\ [][Len(part_list') # Len(part_list) =>
            /\ part_list = <<>>
            /\ ~GeneratorDone /\ GeneratorDone'
            /\ \A p \in 1 .. Len(part_list') :
                  /\ status'[PartC(p)] = "scheduled"
                  /\ \E e \in 1 .. Len(event_list') :
                        event_list'[e] = [t |-> now', c |-> PartC(p)]]_vars

\* two families, one of them of several parts, have been created
C11_Witness ==
    /\ GeneratorDone
    /\ Len(production_plan) = 2
    /\ production_plan[1].quantity # production_plan[2].quantity
    /\ production_plan[1].routing # production_plan[2].routing
    /\ Len(part_list) = TotalParts(production_plan)

\* ----------------------------------------------------------------- C12
\* C12: no two distinct parts of a run, of the same or of different
\* families, have the same part number, whatever the production plan.
C12_UniquePartNumbers ==
    \A p, q \in Created : p # q => part_list[p].part_number # part_list[q].part_number

\* ----------------------------------------------------------------- C13
\* the publisher is the component that fires in this step
ServerFires == CanFire /\ Current = ServerC

\* by its history, machine m is in a cycle: it has popped a part it has not
\* finished
InCycle(m) == Len(Cycles(m)) % 2 = 1

\* by its history, the cycle_time machine m shows at time t: the time since
\* the pop of the cycle it is in, else the length of its last completed
\* cycle, else 0
ShownCycleTime(m, t) ==
    LET c == Cycles(m)
    IN IF InCycle(m) THEN t - c[Len(c)].t
       ELSE IF c = <<>> THEN 0
       ELSE c[Len(c)].t - c[Len(c) - 1].t

\* C13: at every firing of the publisher, for every machine, the published
\* cycle_time is now - cycle_time_start if the machine is busy at that
\* instant (the time since it popped the part it is working on), otherwise
\* the cycle_time of its last completed cycle (0 if it completed none); the
\* published part count is the machine's part count, the number of cycles
\* it has completed.
C13_PublishedValues ==
    [][ServerFires =>
          \A m \in MachineIds :
              /\ (machine_status[m] = 1) <=> InCycle(m)
              /\ InCycle(m) => cycle_time_start[m] = Cycles(m)[Len(Cycles(m))].t
              /\ published'[m].cycle_time = ShownCycleTime(m, now')
              /\ published'[m].part_count = parts[m]
              /\ parts[m] = Len(Cycles(m)) \div 2]_vars

\* the publisher has just sampled a machine in the middle of a cycle, after
\* the machine had completed a cycle of another length
C13_Witness ==
    \E m \in MachineIds :
        /\ last_publish = now
        /\ machine_status[m] = 1
        /\ parts[m] >= 1
        /\ published[m].cycle_time = now - cycle_time_start[m]
        /\ published[m].cycle_time > 0
        /\ published[m].cycle_time # Cycles(m)[Len(Cycles(m)) - 1].t - Cycles(m)[Len(Cycles(m)) - 2].t

\* ----------------------------------------------------------------- C14
\* C14: a firing of the publisher changes no domain object except the
\* cycle_time of the machines that are busy: the status, part count,
\* operating_time, cycle_time_start, current part and queue of every
\* machine, the cycle_time of every idle machine, the place every machine
\* process is suspended at, and every part's fields, status and pending
\* event are after the firing what they were before it.
C14_PublisherFrame ==
    [][ServerFires =>
          /\ UNCHANGED <<machine_status, parts, operating_time, cycle_time_start,
                         current_part, machine_queue, mpc, part_list>>
          /\ \A m \in MachineIds : machine_status[m] # 1 => cycle_time'[m] = cycle_time[m]
          /\ \A c \in DOMAIN status : c # ServerC => status'[c] = status[c]
          /\ Unschedule(event_list', ServerC) = Unschedule(event_list, ServerC)]_vars

\* the publisher has just fired while one machine was in the middle of a
\* cycle with a part waiting in its queue (its cycle_time was rewritten)
\* and another machine was idle after a completed cycle of length > 0
C14_Witness ==
    \E m, i \in MachineIds :
        /\ last_publish = now
        /\ machine_status[m] = 1
        /\ cycle_time[m] = now - cycle_time_start[m] /\ cycle_time[m] > 0
        /\ machine_queue[m] # <<>>
        /\ machine_status[i] = 0
        /\ cycle_time[i] > 0
        /\ cycle_time[i] # now - cycle_time_start[i]

\* ----------------------------------------------------------------- C15
TrackedFields == {"part_count", "cycle_time", "operating_time"}

\* the instant of the publisher's next firing, if it keeps its interval
NextPublish == IF last_publish = None THEN 0 ELSE last_publish + 1

\* how often field f of machine m was written in the last firing
TimesWritten(w, m, f) == Cardinality({i \in 1 .. Len(w[m]) : w[m][i] = f})

\* C15: the publisher fires at t = 0, 1, 2, ... for as long as the run goes
\* on: each firing is exactly 1 after the one before (the first at 0), the
\* clock never passes the instant of the next firing while the run goes on,
\* and a run that ends at till has had its last firing at till.  Each firing
\* writes each of part count, cycle time and operating time of every
\* machine exactly once.
C15_PublishInterval ==
    /\ [](/\ now <= NextPublish
          /\ (running /\ fault = "none") =>
                 /\ Len(SelectSeq(event_list, LAMBDA e : e.c = ServerC)) = 1
                 /\ \E i \in 1 .. Len(event_list) :
                       event_list[i] = [t |-> NextPublish, c |-> ServerC]
          /\ outcome = "success" => last_publish = till)
    /\ [][ServerFires =>
            /\ now' = NextPublish
            /\ last_publish' = now'
            /\ \A m \in MachineIds : \A f \in TrackedFields :
                  /\ TimesWritten(writes', m, f) = 1
                  /\ published'[m][f] = MachineData(m, now')[f]]_vars

\* a run with two machines has ended after the publisher's firing at till,
\* which was not its first
C15_Witness ==
    /\ outcome = "success"
    /\ number_of_machines = 2
    /\ last_publish = till /\ till >= 4
    /\ \A m \in MachineIds : Len(writes[m]) = 3
    /\ \E m \in MachineIds : published[m].part_count > 0

\* ----------------------------------------------------------------- C16
\* the run has ended, in whichever way
RunEnded == ~running

\* C16: on every way the run ends (run() returning, the 'q' key, a
\* KeyboardInterrupt or another exception raised during the run) the sink's
\* stop() has been called exactly once; it is never called more than once.
C16_StopExactlyOnce ==
    /\ sink_stops <= 1
    /\ RunEnded => sink_stops = 1

\* what does hold: stop() is called once when run() returns and once when
\* 'q' is pressed, and not at all when an exception leaves run()
StopsByOutcome ==
    /\ outcome \in {"success", "exit"} => sink_stops = 1
    /\ outcome \in {"interrupted", "error", "none"} => sink_stops = 0

\* ----------------------------------------------------------------- C17
\* C17: once the operator's cancellation has been seen, no further event
\* fires: the clock, the event list, every component's status, every
\* machine's counters and fields, every queue, every part and everything
\* published stay as they were at the cancellation, for ever.
C17_NoEventAfterCancel ==
    [][interrupted # "none" =>
          /\ ~CanFire
          /\ UNCHANGED <<now, event_list, status, machineVars, part_list, published,
                         trace, sinkVars>>]_vars

\* the run was cancelled with 'q' while a machine was in the middle of a
\* cycle, a part was waiting in a queue and events were pending that were
\* due before till
C17_Witness ==
    /\ interrupted = "q"
    /\ ~running
    /\ \E m \in MachineIds :
          /\ machine_status[m] = 1
          /\ machine_queue[m] # <<>>
          /\ \E i \in 1 .. Len(event_list) :
                event_list[i].c = MachineC(m) /\ event_list[i].t <= till
    /\ now < till

\* ----------------------------------------------------------------- C18
\* C18: an operator cancellation ('q', or a keyboard interrupt) is a
\* controlled shutdown: the sink has been stopped, the run loop has stopped
\* and run()'s caller is left with a result that is neither the one of a
\* normal completion nor the one of a generic error.
C18_ControlledShutdown ==
    interrupted # "none" =>
        /\ sink_stops = 1
        /\ ~running
        /\ outcome \notin {"none", "success", "error"}

\* what does hold: of the two cancellations only 'q' stops the sink
CancelByKey ==
    /\ interrupted = "q" => sink_stops = 1 /\ ~running /\ outcome = "exit"
    /\ interrupted = "ctrl-c" => sink_stops = 0 /\ ~running /\ outcome = "interrupted"

\* ----------------------------------------------------------------- C19
\* C19: when a publish call to the sink has failed the simulation goes on:
\* the failure is on record, the run loop is still running with no error
\* reported to main, and the publisher is scheduled for its next firing.
C19_PublishFailureTolerated ==
    fault = "SinkError" =>
        /\ running
        /\ outcome = "none"
        /\ \E i \in 1 .. Len(event_list) : event_list[i].c = ServerC

\* ----------------------------------------------------------------- C20
\* the event list is empty, run() has returned, the sink is stopped and
\* main has reported success
Quiescent ==
    /\ event_list = <<>>
    /\ ~running
    /\ sink_stops = 1
    /\ outcome = "success"

\* C20: a run without time limit over a (finite) plan eventually reaches
\* quiescence: no pending events, run() returned, sink stopped, success
\* reported.
C20_RunsToQuiescence == (till = None) => <>Quiescent

\* what does hold: while the run goes on the publisher always has an event
\* pending, so a run without time limit never ends by itself
PublisherAlwaysPending ==
    (running /\ fault = "none") => \E i \in 1 .. Len(event_list) : event_list[i].c = ServerC

\* ----------------------------------------------------------------- C21
\* the finishes machine m has logged
Finishes(m) == SelectSeq(trace, LAMBDA e : e.ev = "finish" /\ e.m = m)

\* C21: run(till=T) fires the events due up to T and no event due after T:
\* the clock never passes T, nothing in the machines' and parts' history and
\* no publication is later than T, every machine's part count is the number
\* of its finishes (all at or before T), and the run returns: it ends with
\* the clock at T and every event still pending due after T, or with no
\* event pending.
C21_RunTill ==
    /\ [](till # None =>
            /\ now >= 0 /\ now <= till
            /\ last_publish <= till
            /\ \A i \in 1 .. Len(trace) : trace[i].t <= till
            /\ \A m \in MachineIds : parts[m] = Len(Finishes(m))
            /\ outcome = "success" =>
                  \/ event_list = <<>>
                  \/ now = till /\ \A i \in 1 .. Len(event_list) : event_list[i].t > till)
    /\ <>(till = None \/ outcome = "success")

\* a run has returned at a till that came in the middle of a machine cycle:
\* the machine is still busy with a part, its finish is pending, due after
\* till, and another part is still waiting in its queue
C21_Witness ==
    /\ till # None
    /\ outcome = "success"
    /\ now = till
    /\ \E m \in MachineIds :
          /\ machine_status[m] = 1
          /\ machine_queue[m] # <<>>
          /\ parts[m] = 0
          /\ \E i \in 1 .. Len(event_list) :
                event_list[i].c = MachineC(m) /\ event_list[i].t > till

\* ----------------------------------------------------------------- C22
\* C22: simulated time is never negative and never decreases from one event
\* firing to the next; what the processes saw of it is in order: the times
\* in the machines' and parts' history never decrease, none of them and no
\* publication is later than the clock, and no pending event is due before
\* the clock.
C22_TimeMonotone ==
    /\ [](/\ now >= 0
          /\ \A i \in 1 .. Len(trace) :
                /\ trace[i].t >= 0 /\ trace[i].t <= now
                /\ (i > 1) => trace[i - 1].t <= trace[i].t
          /\ last_publish <= now
          /\ \A i \in 1 .. Len(event_list) : event_list[i].t >= now)
    /\ [][now' >= now]_vars

\* the clock has advanced more than once; in the history two steps happened
\* at one instant and two at different instants, and the publisher has
\* fired at the current instant
C22_Witness ==
    /\ now >= 4
    /\ last_publish = now
    /\ \E i, j \in 2 .. Len(trace) :
          /\ trace[i - 1].t = trace[i].t
          /\ trace[j - 1].t < trace[j].t /\ trace[j - 1].t > 0

\* ----------------------------------------------------------------- C23
CurrentComponents == {c \in DOMAIN status : status[c] = "current"}

\* machine m is not seen half-way: between its pop and the setting of
\* status busy it has a current part but status idle, and so it has between
\* the status reset and the counter updates
SeenWhole(m) == (machine_status[m] = 1) <=> (current_part[m] # None)

\* C23: at most one process is current at any instant, and while a machine
\* is current (between two of its suspension points) no other process takes
\* a step: the clock, the publications, the parts and the other machines
\* stay as they are until it suspends.  So whenever a machine is not the
\* current process, it is seen neither between its pop and the setting of
\* status busy nor between the status reset and the counter updates.
C23_OneCurrent ==
    /\ [](/\ Cardinality(CurrentComponents) <= 1
          /\ CurrentComponents = IF stepping = Idle THEN {} ELSE {stepping}
          /\ \A m \in MachineIds : status[MachineC(m)] # "current" => SeenWhole(m))
    /\ [][stepping # Idle =>
            /\ now' = now
            /\ UNCHANGED <<published, last_publish, writes, machine_queue>>
            /\ Len(part_list') = Len(part_list)
            /\ \A p \in Created : part_list'[p] = part_list[p]
            /\ \A m \in MachineIds : MachineC(m) # stepping =>
                  /\ mpc'[m] = mpc[m] /\ status'[MachineC(m)] = status[MachineC(m)]
                  /\ parts'[m] = parts[m] /\ machine_status'[m] = machine_status[m]
                  /\ cycle_time'[m] = cycle_time[m] /\ current_part'[m] = current_part[m]
                  /\ operating_time'[m] = operating_time[m]]_vars

\* a machine is current between its pop and the setting of status busy
\* while the publisher is due at this very instant, and another machine is
\* due at this instant too
C23_Witness ==
    \E m \in MachineIds :
        /\ stepping = MachineC(m)
        /\ mpc[m] = "popped"
        /\ ~SeenWhole(m)
        /\ \E i, j \in 1 .. Len(event_list) :
              /\ event_list[i] = [t |-> now, c |-> ServerC]
              /\ event_list[j].t = now /\ event_list[j].c[1] = "M"

\* ----------------------------------------------------------------- C24
Pending(el) == {el[i].c : i \in 1 .. Len(el)}
Place(el, c) == CHOOSE i \in 1 .. Len(el) : el[i].c = c

\* c is pending before and after the step, for the same time, and is not
\* the component that fires in it
Kept(c) ==
    /\ c # Current
    /\ c \in Pending(event_list) /\ c \in Pending(event_list')
    /\ event_list'[Place(event_list', c)].t = event_list[Place(event_list, c)].t

\* the first entries into a queue, and the steps after which parts were
\* activated and after which they went on, in the order they happened
FirstEnters == SelectSeq(trace, LAMBDA e : e.ev = "enter" /\ e.k = 1)
ActivatedSteps ==
    LET f == SelectSeq(trace, LAMBDA e : e.ev = "finish")
    IN [i \in 1 .. Len(f) |-> <<f[i].p, f[i].k>>]
ResumedSteps ==
    LET r == SelectSeq(trace, LAMBDA e : (e.ev = "enter" /\ e.k > 1) \/ e.ev = "terminate")
    IN [i \in 1 .. Len(r) |-> <<r[i].p, IF r[i].ev = "enter" THEN r[i].k - 1 ELSE r[i].k>>]

\* C24: events fire in the order of their due times and, at equal due
\* time, in the order they were inserted: the event that fires is the head
\* of a list kept in time order, every component pending at most once; a
\* step leaves the events that stay pending in their order and puts every
\* event it inserts behind those already pending for the same time, and the
\* events it inserts for one time in the order it inserts them.  In
\* particular the parts enter their first queue in the order they were
\* created, and parts go on after a finished step in the order in which
\* the machines activated them.
C24_TieBreak ==
    /\ [](/\ \A i, j \in 1 .. Len(event_list) :
                i < j => /\ event_list[i].t <= event_list[j].t
                         /\ event_list[i].c # event_list[j].c
          /\ \A i \in 1 .. Len(FirstEnters) : FirstEnters[i].p = i
          /\ IsPrefix(ResumedSteps, ActivatedSteps))
    /\ [][CanFire =>
            \A c, d \in Pending(event_list') :
                LET pc == Place(event_list', c)
                    pd == Place(event_list', d)
                IN /\ (Kept(c) /\ Kept(d) /\ Place(event_list, c) < Place(event_list, d))
                        => pc < pd
                   /\ (Kept(c) /\ ~Kept(d) /\ event_list'[pc].t = event_list'[pd].t)
                        => pc < pd
                   /\ (~Kept(c) /\ ~Kept(d) /\ c[1] = "P" /\ d[1] = "P" /\ c[2] < d[2])
                        => pc < pd]_vars

\* two machines finished at one instant and the two parts they activated
\* have both gone on, after three or more parts had entered their first
\* queues at t=0
C24_Witness ==
    /\ Len(FirstEnters) >= 3
    /\ \E i \in 1 .. (Len(ResumedSteps) - 1) :
          LET f == SelectSeq(trace, LAMBDA e : e.ev = "finish")
          IN f[i].t = f[i + 1].t /\ f[i].m # f[i + 1].m /\ f[i].p # f[i + 1].p

\* ----------------------------------------------------------------- C25
\* the steps the run loop could take from this state
Fireable ==
    {<<"MachineIdle", m>> : m \in {x \in MachineIds : ENABLED MachineIdle(x)}}
    \cup {<<"MachineStart", m>> : m \in {x \in MachineIds : ENABLED MachineStart(x)}}
    \cup {<<"MachineFinish", m>> : m \in {x \in MachineIds : ENABLED MachineFinish(x)}}
    \cup {<<"PartEnter", p>> : p \in {x \in 1 .. Len(part_list) : ENABLED PartEnter(x)}}
    \cup {<<"PartTerminate", p>> : p \in {x \in 1 .. Len(part_list) : ENABLED PartTerminate(x)}}
    \cup {<<"GeneratorStep", 0>> : x \in {y \in {0} : ENABLED GeneratorStep}}
    \cup {<<"ServerStep", 0>> : x \in {y \in {0} : ENABLED ServerStep}}
    \cup {<<"EndRun", 0>> : x \in {y \in {0} : ENABLED EndRun}}

\* the components whose event is due at the instant of the head of the list
DueNow == {event_list[i].c : i \in {j \in 1 .. Len(event_list) : event_list[j].t = DueTime}}

C27_EnterLeave ==
    /\ \A k \in 1 .. Len(trace) :
          trace[k].ev = "enter" => ~InQueue(trace[k].before, XC(trace[k].p))
    /\ \A k \in 1 .. (Len(trace) - 1) :
          (trace[k].ev = "enter" /\ trace[k + 1].ev = "leave" /\ trace[k + 1].p = trace[k].p)
              => /\ Len(trace[k + 1].after) = Len(trace[k].before)
                 /\ trace[k + 1].after = trace[k].before
                 /\ trace[k + 1].before = trace[k].after

\* a component entered behind two others and left again before anyone
\* else entered or left
C27_Witness ==
    \E k \in 1 .. (Len(trace) - 1) :
        /\ trace[k].ev = "enter" /\ trace[k + 1].ev = "leave"
        /\ trace[k + 1].p = trace[k].p
        /\ Len(trace[k].before) >= 2

\* ----------------------------------------------------------------- C28
DueOf(el, c) == el[Place(el, c)].t

\* C28: in a step of a part, a machine with a pending event (in its
\* processing hold, in its turnaround hold or scheduled to run) keeps that
\* event for the same time and stays where it is in its process; a machine
\* gets an event in such a step only if it was passive and the part has
\* just entered its queue, and the event is for now.
C28_ActivateOnlyPassive ==
    [][(CanFire /\ Current[1] = "P") =>
        \A m \in MachineIds :
            LET c == MachineC(m)
            IN /\ c \in Pending(event_list)
                    => /\ c \in Pending(event_list')
                       /\ DueOf(event_list', c) = DueOf(event_list, c)
                       /\ mpc'[m] = mpc[m]
                       /\ status'[c] = status[c]
               /\ (c \notin Pending(event_list) /\ c \in Pending(event_list'))
                    => /\ status[c] = "passive"
                       /\ InQueue(machine_queue'[m], Current[2])
                       /\ ~InQueue(machine_queue[m], Current[2])
                       /\ DueOf(event_list', c) = now']_vars

\* a part has just entered the queue of a machine that is in its
\* processing hold, and the hold still ends later
C28_Witness ==
    /\ trace # <<>>
    /\ trace[Len(trace)].ev = "enter"
    /\ LET m == trace[Len(trace)].m
       IN /\ mpc[m] = "processing"
          /\ MachineC(m) \in Pending(event_list)
          /\ DueOf(event_list, MachineC(m)) > now

\* ----------------------------------------------------------------- C29
\* C29: no wake-up is lost: between two firings a passive machine has an
\* empty queue, and a machine with a part in its queue has an event pending
\* (for now, or for the end of a hold) or is the current component; a
\* machine is passive exactly when it has no event pending.
C29_NoLostWakeup ==
    \A m \in MachineIds :
        /\ status[MachineC(m)] = "passive" => machine_queue[m] = <<>>
        /\ machine_queue[m] # <<>>
              => (MachineC(m) \in Pending(event_list) \/ stepping = MachineC(m))
        /\ (status[MachineC(m)] = "passive" /\ fault = "none")
              => MachineC(m) \notin Pending(event_list)

\* after t=0 a machine that had passivated has a part in its queue and is
\* scheduled for now, not yet run
C29_Witness ==
    \E m \in MachineIds :
        /\ now > 0
        /\ mpc[m] = "passive"
        /\ machine_queue[m] # <<>>
        /\ status[MachineC(m)] = "scheduled"
        /\ MachineC(m) \in Pending(event_list)
        /\ DueOf(event_list, MachineC(m)) = now

\* ----------------------------------------------------------------- C30
\* C30: between two firings a machine is busy (status 1) exactly when it
\* has a current part; the current part is a part that was created, is
\* passive, stands in no queue, and is the current part of no other machine.
C30_BusyIffCurrentPart ==
    \A m \in MachineIds :
        /\ machine_status[m] \in {0, 1}
        /\ (machine_status[m] = 1) <=> (current_part[m] # None)
        /\ current_part[m] # None
              => /\ current_part[m] \in Created
                 /\ status[PartC(current_part[m])] = "passive"
                 /\ \A n \in MachineIds :
                       /\ ~InQueue(machine_queue[n], current_part[m])
                       /\ n # m => current_part[n] # current_part[m]

\* both machines are busy, each with its own part, while another part
\* waits in a queue
C30_Witness ==
    /\ number_of_machines = 2
    /\ \A m \in MachineIds : machine_status[m] = 1 /\ current_part[m] # None
    /\ current_part[0] # current_part[1]
    /\ \E m \in MachineIds : machine_queue[m] # <<>>

\* ----------------------------------------------------------------- C31
\* the processing time the routing of part p gives for its step k
StepDuration(p, k) == part_list[p].machining_sequence[k][2]

\* the durations of the steps machine m has finished, in order
FinishedDurations(m) ==
    LET f == Finishes(m)
    IN [i \in 1 .. Len(f) |-> StepDuration(f[i].p, f[i].k)]

\* the routing steps of the plan that name machine m, counted with quantity
PlanSteps(m) ==
    SumSeq([i \in 1 .. Len(production_plan) |->
               production_plan[i].quantity
                   * Cardinality({k \in 1 .. Len(production_plan[i].routing) :
                                      production_plan[i].routing[k][1] = m})])

AllTerminated ==
    /\ GeneratorDone
    /\ Len(SelectSeq(trace, LAMBDA e : e.ev = "terminate")) = Len(part_list)

\* C31: between two firings, however the run goes on or ends, the part count
\* of a machine is the number of routing steps it has finished and its
\* operating_time is the sum of the processing times of those steps: a cycle
\* in flight adds nothing.  Once every part has terminated the part count
\* of machine m is the number of steps of the plan, counted with quantity,
\* that name m.
C31_CounterConservation ==
    \A m \in MachineIds :
        /\ parts[m] = Len(Finishes(m))
        /\ operating_time[m] = SumSeq(FinishedDurations(m))
        /\ AllTerminated => parts[m] = PlanSteps(m)

\* the 'q' key ended the run while a machine was in a cycle the publisher
\* had sampled, after the machine had finished a step of length > 0
C31_Witness ==
    \E m \in MachineIds :
        /\ outcome = "exit"
        /\ machine_status[m] = 1
        /\ cycle_time[m] > 0 /\ cycle_time[m] = now - cycle_time_start[m]
        /\ parts[m] >= 1
        /\ operating_time[m] > 0

\* every part has terminated, two machines have each finished two steps or more
AllTerminatedReached ==
    /\ AllTerminated
    /\ number_of_machines = 2
    /\ \A m \in MachineIds : parts[m] >= 2

\* ----------------------------------------------------------------- C32
\* the time machine m has spent in the cycle it is in, if it is in one
\* (zero for the cycle_time_start of an idle machine)
LiveCycleTime(m, t) == IF machine_status[m] = 1 THEN t - cycle_time_start[m] ELSE 0

\* C32: from one firing of the publisher to the next the published part
\* count and the published operating time of a machine never decrease (no
\* step of anyone else changes them); the published operating time is the
\* accumulated operating_time, for a busy machine plus the time it has
\* spent in its cycle, and is never more than the simulated time.
C32_PublishedMonotone ==
    /\ [](\A m \in MachineIds :
             /\ published[m].operating_time <= now
             /\ published[m].operating_time >= 0
             /\ published[m].part_count >= 0)
    /\ [][\A m \in MachineIds :
             /\ published'[m].part_count >= published[m].part_count
             /\ published'[m].operating_time >= published[m].operating_time
             /\ ServerFires
                   => published'[m].operating_time
                          = operating_time[m] + LiveCycleTime(m, now')]_vars

\* the publisher has just fired: one machine, with two or more finished
\* steps behind it, is idle and shows its accumulated time, the other is in
\* a cycle and shows more than it has accumulated
C32_Witness ==
    \E m, i \in MachineIds :
        /\ last_publish = now
        /\ machine_status[m] = 0
        /\ published[m].part_count >= 2
        /\ published[m].operating_time = operating_time[m] /\ operating_time[m] > 0
        /\ machine_status[i] = 1
        /\ operating_time[i] > 0
        /\ published[i].operating_time > operating_time[i]

\* ----------------------------------------------------------------- C33
\* the publisher issues a publication in this step
PublishIssued == ServerFires /\ last_publish' = DueTime /\ last_publish' # last_publish

\* C33: whatever run() calls, cancellations and publisher firings follow
\* one another on an environment, a publication is issued only when the
\* sink has been started and stop() has not been called on it.
C33_SinkLifecycle ==
    [][PublishIssued => (SinkStarts >= 1 /\ sink_stops = 0)]_vars

\* the publisher has published in a second run(): stop() had been called
\* when the first run() returned
PublishedAfterStop ==
    /\ sink_stops >= 1
    /\ running
    /\ last_publish # None /\ last_publish = till

\* ----------------------------------------------------------------- C34
\* the machine of the demo comes back from its processing hold in this step
OneCycleCompletes == CanFire /\ Current = MachineC(0) /\ mpc[0] = "processing"

\* C34: in the single-machine demo every completed cycle adds exactly the
\* processing duration, now - cycle_time_start = 10, to the operating_time,
\* whenever the ticks sampled the machine during the cycle and whether they
\* did at all.
C34_OperatingTimePerCycle ==
    [][(OneCycleCompletes /\ parts'[0] = parts[0] + 1) =>
          /\ now' - cycle_time_start[0] = OneCycle
          /\ operating_time'[0] = operating_time[0] + (now' - cycle_time_start[0])
          /\ operating_time'[0] = operating_time[0] + OneCycle]_vars

\* a cycle has completed that the last tick had sampled one time unit
\* before its end: the operating_time went up by 9
LossOfOne ==
    /\ parts[0] = 1
    /\ now = OneCycle
    /\ machine_status[0] = 0
    /\ last_publish = now - 1
    /\ operating_time[0] = OneCycle - 1

====
